---- MODULE Spec2Model ----
(***************************************************************************)
(* Conversation session state machine of src/streamlit_app.py.             *)
(*                                                                         *)
(* One action is one interaction cycle of one browser session: the widget  *)
(* event (button, selectbox change with its on_change callback, chat       *)
(* input), then main() run top to bottom, then the re-run that st.rerun()  *)
(* asks for.  Python values are tagged records so that None, a list and a  *)
(* string stay distinguishable, as they are for the interpreter.           *)
(***************************************************************************)
EXTENDS Integers, Sequences, FiniteSets, TLC

VARIABLES
    session_state,  \* session -> st.session_state (key -> Python value)
    options,        \* session -> options of the selectbox rendered by the last run
    supabase,       \* the shared store: tables users, user_conversations, messages
    last,           \* what the last interaction cycle was and how it ended
    calls           \* session -> its get_or_create_user call in flight, if any

vars == <<session_state, options, supabase, last, calls>>

----------------------------------------------------------------------------
(* Bounds of the model.                                                    *)

MaxConversations == 2
MaxMessages == 3

\* Browser sessions that exist.
AllSessions == {1, 2}

\* External identities the auth provider knows (email, auth id).
Identities == { [email |-> "a@x.io", id |-> "auth-a"] }

\* Texts a user types into the chat input: whitespace only, and a query.
UserTexts == { " ", "Find high dividend yield stocks" }

----------------------------------------------------------------------------
(* Python values.                                                          *)

None == [t |-> "None"]
PyBool(b) == [t |-> "bool", v |-> b]
PyInt(n) == [t |-> "int", v |-> n]
PyStr(s) == [t |-> "str", v |-> s]
PyList(q) == [t |-> "list", v |-> q]
PyDict(f) == [t |-> "dict", v |-> f]

EmptyDict == PyDict(<<>>)

\* Python truthiness, as used by `if x:` and `not x`.
Truthy(x) ==
    CASE x.t = "None" -> FALSE
      [] x.t = "bool" -> x.v
      [] x.t = "int" -> x.v # 0
      [] x.t = "str" -> x.v # ""
      [] x.t = "list" -> x.v # <<>>
      [] x.t = "dict" -> DOMAIN x.v # {}

\* dict.get(key, default)
PyGet(d, key, default) == IF key \in DOMAIN d.v THEN d.v[key] ELSE default

\* seq[start:] for any integer start (negative counts from the end; -0 is 0).
PySliceFrom(q, start) ==
    LET n == Len(q)
        from == IF start < 0
                THEN (IF n + start > 0 THEN n + start ELSE 0)
                ELSE (IF start < n THEN start ELSE n)
    IN  SubSeq(q, from + 1, n)

\* sep.join(parts)
RECURSIVE Join(_, _)
Join(parts, sep) ==
    IF parts = <<>> THEN ""
    ELSE IF Len(parts) = 1 THEN parts[1]
    ELSE parts[1] \o sep \o Join(Tail(parts), sep)

\* str.strip() on the texts of the model: a whitespace-only text strips to "".
strip(s) == IF s \in {"", " ", "  ", "\t", "\n"} THEN "" ELSE s

Reverse(q) == [i \in 1..Len(q) |-> q[Len(q) + 1 - i]]

----------------------------------------------------------------------------
(* Session defaults.                                                       *)

init_session_state ==
    [ logged_in |-> PyBool(FALSE),
      user_email |-> PyStr(""),
      user_id |-> None,
      conversation_id |-> None,
      conversation_history |-> PyList(<<>>),
      messages |-> PyList(<<>>),
      pick_conv |-> None ]

----------------------------------------------------------------------------
(* Context builder and helpers.                                            *)

\* The fixed error text of the pipeline (its leading warning sign is left out:
\* the three places that build it build the same text).
ErrorText == "**Error**: Could not process your request. Please try again."

QUERY_PREFIX == "get query for this\n\n"

RoleTag(m) == IF m.role = "user" THEN "USER" ELSE "ASSISTANT"

\* The lines build_context joins, for a list of messages.
ContextLines(msgs, max_turns) ==
    LET tail == PySliceFrom(msgs, -(2 * max_turns))
    IN  [i \in 1..Len(tail) |-> RoleTag(tail[i]) \o ": " \o tail[i].content]

\* build_context: subscripting None raises TypeError.
build_context(messages, max_turns) ==
    IF messages.t # "list"
    THEN [exc |-> "TypeError", value |-> ""]
    ELSE [exc |-> "none", value |-> Join(ContextLines(messages.v, max_turns), "\n")]

\* urllib.parse.quote_plus on the queries of the model.
quote_plus(query) ==
    CASE query = "Dividend yield > 4" -> "Dividend+yield+%3E+4"
      [] OTHER -> query

query_url(query) ==
    "https://www.screener.in/screen/raw/?sort=&order=&source_id=&query="
        \o quote_plus(query) \o "&page=1"

----------------------------------------------------------------------------
(* The research service: what one call can come back with.                 *)

Thought == "The user wants high dividend yield."
Objectives == <<"Find dividend yield above 4%.">>
GeneratedQuery == "Dividend yield > 4"

Analysis == PyDict([thought |-> PyStr(Thought), objectives |-> PyList(Objectives)])

\* Outcomes in which fetch_research raises: API_URL unset; requests.post,
\* raise_for_status or resp.json() raising.
RaisingOutcomes == {"api_url_missing", "transport_error"}

\* Outcomes in which fetch_research returns the decoded JSON body.
ReturningOutcomes ==
    { "not_object", "success_false", "ok_full", "ok_no_fields", "ok_no_data",
      "ok_data_null", "ok_data_not_object", "ok_analysis_null" }

ServiceOutcomes == RaisingOutcomes \cup ReturningOutcomes

\* The decoded body of a returning outcome.
ResponseBody(outcome) ==
    CASE outcome = "not_object" -> PyList(<<>>)
      [] outcome = "success_false" ->
            PyDict([success |-> PyBool(FALSE), data |-> None])
      [] outcome = "ok_full" ->
            PyDict([success |-> PyBool(TRUE),
                    data |-> PyDict([analysis |-> Analysis,
                                     query |-> PyStr(GeneratedQuery)])])
      [] outcome = "ok_no_fields" ->
            PyDict([success |-> PyBool(TRUE),
                    data |-> PyDict([analysis |-> EmptyDict])])
      [] outcome = "ok_no_data" -> PyDict([success |-> PyBool(TRUE)])
      [] outcome = "ok_data_null" ->
            PyDict([success |-> PyBool(TRUE), data |-> None])
      [] outcome = "ok_data_not_object" ->
            PyDict([success |-> PyBool(TRUE), data |-> PyStr("n/a")])
      [] outcome = "ok_analysis_null" ->
            PyDict([success |-> PyBool(TRUE),
                    data |-> PyDict([analysis |-> None,
                                     query |-> PyStr(GeneratedQuery)])])

\* fetch_research: the request it would send, and what comes back.
fetch_research(query, context, outcome) ==
    LET combined_query == IF context # "" THEN context \o "\n\n" \o query ELSE query
    IN  IF outcome = "api_url_missing"
        THEN [exc |-> "RuntimeError", value |-> None, request |-> None]
        ELSE IF outcome \in RaisingOutcomes
        THEN [exc |-> "RequestException", value |-> None,
              request |-> PyStr(combined_query)]
        ELSE [exc |-> "none", value |-> ResponseBody(outcome),
              request |-> PyStr(combined_query)]

----------------------------------------------------------------------------
(* Database utilities.  A table is the sequence of its rows in insertion   *)
(* order; ids and created_at are the insertion index.                      *)

get_or_create_user(db, email, auth_id) ==
    LET found == SelectSeq(db.users,
                           LAMBDA r : r.auth_id = auth_id /\ r.status = "active")
        id == Len(db.users) + 1
    IN  IF found # <<>>
        THEN [db |-> db, ret |-> found[1].id]
        ELSE [db |-> [db EXCEPT !.users =
                        Append(@, [id |-> id, auth_id |-> auth_id,
                                   email |-> email, status |-> "active"])],
              ret |-> id]

\* get_or_create_user, its select alone: the active rows of the identity.
select_active_user(db, auth_id) ==
    SelectSeq(db.users, LAMBDA r : r.auth_id = auth_id /\ r.status = "active")

\* get_or_create_user after its select returned `data`: return the first
\* row's id, or insert a row and return its id.
return_or_insert_user(db, email, auth_id, data) ==
    LET id == Len(db.users) + 1
    IN  IF data # <<>>
        THEN [db |-> db, ret |-> data[1].id]
        ELSE [db |-> [db EXCEPT !.users =
                        Append(@, [id |-> id, auth_id |-> auth_id,
                                   email |-> email, status |-> "active"])],
              ret |-> id]

list_conversations(db, user_id) ==
    IF ~Truthy(user_id) THEN <<>>
    ELSE Reverse(SelectSeq(db.user_conversations,
                           LAMBDA r : r.user_id = user_id /\ r.status = "active"))

create_conversation(db, user_id, title) ==
    LET id == Len(db.user_conversations) + 1
    IN  [db |-> [db EXCEPT !.user_conversations =
                    Append(@, [id |-> id, user_id |-> user_id, title |-> title,
                               status |-> "active", created_at |-> id])],
         ret |-> [id |-> id, title |-> title, created_at |-> id]]

save_message(db, conv_id, role, content) ==
    [db EXCEPT !.messages =
        Append(@, [conversation_id |-> conv_id, role |-> role,
                   content |-> content, status |-> "active"])]

\* Mutant of load_messages: the conversation filter is dropped.
load_messages_any_conversation(db, conv_id) ==
    LET rows == SelectSeq(db.messages, LAMBDA m : m.status = "active")
    IN  [i \in 1..Len(rows) |-> [role |-> rows[i].role, content |-> rows[i].content]]

load_messages(db, conv_id) ==
    LET rows == SelectSeq(db.messages,
                          LAMBDA m : m.conversation_id = conv_id /\ m.status = "active")
    IN  [i \in 1..Len(rows) |-> [role |-> rows[i].role, content |-> rows[i].content]]

----------------------------------------------------------------------------
(* One script run works on a "world": the session's st.session_state (ss), *)
(* the store (db), the selectbox options rendered so far (options), the    *)
(* store operations issued (ops), the uncaught exception that ended the    *)
(* run (exc), whether st.rerun() was called (rerun), the service outcome   *)
(* consumed (called) and the request sent to the service (request).        *)

Raise(w, e) == [w EXCEPT !.exc = e]

\* ---------- AUTH ----------

\* Mutant of sign_in: logged_in is set before the answer is looked at.
sign_in_marks_logged_in(w, auth_resp) ==
    IF ~Truthy(auth_resp)
    THEN [w |-> [w EXCEPT !.ss.logged_in = PyBool(TRUE)], ret |-> FALSE]
    ELSE LET user == auth_resp.v.user
             r == get_or_create_user(w.db, user.email, user.id)
         IN  [w |-> [w EXCEPT !.db = r.db,
                              !.ss.logged_in = PyBool(TRUE),
                              !.ss.user_email = PyStr(user.email),
                              !.ss.user_id = PyInt(r.ret)],
              ret |-> TRUE]

\* sign_in: auth_resp is None (falsy) or the provider's answer with its user.
sign_in(w, auth_resp) ==
    IF ~Truthy(auth_resp) THEN [w |-> w, ret |-> FALSE]
    ELSE LET user == auth_resp.v.user
             r == get_or_create_user(w.db, user.email, user.id)
         IN  [w |-> [w EXCEPT !.db = r.db,
                              !.ss.logged_in = PyBool(TRUE),
                              !.ss.user_email = PyStr(user.email),
                              !.ss.user_id = PyInt(r.ret)],
              ret |-> TRUE]

\* sign_up: the same steps on the provider's sign_up answer.
sign_up(w, auth_resp) ==
    IF ~Truthy(auth_resp) THEN [w |-> w, ret |-> FALSE]
    ELSE LET user == auth_resp.v.user
             r == get_or_create_user(w.db, user.email, user.id)
         IN  [w |-> [w EXCEPT !.db = r.db,
                              !.ss.logged_in = PyBool(TRUE),
                              !.ss.user_email = PyStr(user.email),
                              !.ss.user_id = PyInt(r.ret)],
              ret |-> TRUE]

SignOutKeys ==
    {"logged_in", "user_email", "user_id", "conversation_id", "messages", "pick_conv"}

\* sign_out: every listed key becomes False if it holds a bool, None otherwise.
sign_out(w) ==
    [w EXCEPT !.ss =
        [k \in DOMAIN w.ss |->
            IF k \in SignOutKeys
            THEN (IF w.ss[k].t = "bool" THEN PyBool(FALSE) ELSE None)
            ELSE w.ss[k]]]

\* ---------- SIDEBAR ----------

\* sidebar_auth: the Log Out button, or the submitted sign-in / sign-up form.
sidebar_auth(w, ev) ==
    IF Truthy(w.ss.logged_in)
    THEN IF ev.button = "Log Out"
         THEN [sign_out(w) EXCEPT !.rerun = TRUE]
         ELSE w
    ELSE IF ev.button = "Submit"
         THEN LET r == IF ev.tab = "Sign In"
                       THEN sign_in(w, ev.auth_resp)
                       ELSE sign_up(w, ev.auth_resp)
              IN  IF r.ret THEN [r.w EXCEPT !.rerun = TRUE] ELSE r.w
         ELSE w

\* Mutant of handle_conv_change: an existing conversation's messages are
\* loaded but conversation_id is not set.
handle_conv_change_keeps_id(w) ==
    LET sel == w.ss.pick_conv
    IN  IF sel = None
        THEN [w EXCEPT !.ss.conversation_id = None,
                       !.ss.messages = PyList(<<>>)]
        ELSE [w EXCEPT !.ss.messages = PyList(load_messages(w.db, sel.v))]

\* handle_conv_change: the selectbox's on_change callback.
handle_conv_change(w) ==
    LET sel == w.ss.pick_conv
    IN  IF sel = None
        THEN [w EXCEPT !.ss.conversation_id = None,
                       !.ss.messages = PyList(<<>>)]
        ELSE [w EXCEPT !.ss.conversation_id = sel,
                       !.ss.messages = PyList(load_messages(w.db, sel.v))]

\* Mutant of sidebar_history: pick_conv is left as it is.
sidebar_history_no_sync(w) ==
    IF ~Truthy(w.ss.logged_in) THEN w
    ELSE LET convs == list_conversations(w.db, w.ss.user_id)
             opts == <<None>> \o [i \in 1..Len(convs) |-> PyInt(convs[i].id)]
         IN  [w EXCEPT !.options = opts]

\* sidebar_history: fetch the list, force pick_conv to conversation_id when
\* they differ, render the selectbox over [None] + ids.
sidebar_history(w) ==
    IF ~Truthy(w.ss.logged_in) THEN w
    ELSE LET convs == list_conversations(w.db, w.ss.user_id)
             opts == <<None>> \o [i \in 1..Len(convs) |-> PyInt(convs[i].id)]
         IN  [w EXCEPT !.options = opts,
                       !.ss.pick_conv =
                           IF @ # w.ss.conversation_id
                           THEN w.ss.conversation_id ELSE @]

\* ---------- CHAT MAIN TAB ----------

\* A store write made by a run, with the operation recorded in the order the
\* store sees it.
CreateConversation(w, title) ==
    LET r == create_conversation(w.db, w.ss.user_id, title)
    IN  [w |-> [w EXCEPT !.db = r.db,
                         !.ops = Append(@, [op |-> "create_conversation",
                                            conversation_id |-> r.ret.id,
                                            role |-> "", content |-> ""])],
         ret |-> r.ret]

SaveMessage(w, cid, role, content) ==
    [w EXCEPT !.db = save_message(w.db, cid.v, role, content),
              !.ops = Append(@, [op |-> "append_message",
                                 conversation_id |-> cid.v,
                                 role |-> role, content |-> content])]

ensure_conv_for_first_msg(w) ==
    IF w.ss.conversation_id = None
    THEN LET r == CreateConversation(w, " ")
         IN  [r.w EXCEPT !.ss.conversation_id = PyInt(r.ret.id),
                         !.ss.conversation_history = PyList(<<r.ret>> \o @.v)]
    ELSE w

\* Mutant of AcceptInput: the user message is appended to the log and not
\* saved.
AcceptInput_not_saved(w, user_msg) ==
    LET w1 == ensure_conv_for_first_msg(w)
    IN  IF w1.ss.messages.t # "list"
        THEN Raise(w1, "AttributeError")
        ELSE [w1 EXCEPT !.ss.messages =
                 PyList(Append(@.v, [role |-> "user", content |-> user_msg.v]))]

\* chat_tab, `if user_msg:` block: ensure the conversation, append the user
\* message to the log, save it.  None has no append: AttributeError.
AcceptInput(w, user_msg) ==
    LET w1 == ensure_conv_for_first_msg(w)
        cid == w1.ss.conversation_id
    IN  IF w1.ss.messages.t # "list"
        THEN Raise(w1, "AttributeError")
        ELSE SaveMessage(
                [w1 EXCEPT !.ss.messages =
                    PyList(Append(@.v, [role |-> "user", content |-> user_msg.v]))],
                cid, "user", user_msg.v)

\* chat_tab, the composition of the assistant message from a successful
\* body (the section headers are written without their emoji, and the code
\* fence of three backquotes as ~~~).
ComposeMessage(result) ==
    LET data == PyGet(result, "data", EmptyDict)
    IN  IF data.t # "dict" THEN [exc |-> "AttributeError", value |-> ""]
        ELSE
        LET analysis == PyGet(data, "analysis", EmptyDict)
            generated_query == PyGet(data, "query", None)
        IN  IF analysis.t # "dict" THEN [exc |-> "AttributeError", value |-> ""]
            ELSE
            LET thought == PyGet(analysis, "thought", None)
                objectives == PyGet(analysis, "objectives", None)
                c1 == IF Truthy(thought)
                      THEN <<"**Thought**\n" \o thought.v>> ELSE <<>>
                c2 == IF Truthy(objectives)
                      THEN <<"**Objectives**\n"
                              \o Join([i \in 1..Len(objectives.v) |->
                                          "- " \o objectives.v[i]], "\n")>>
                      ELSE <<>>
                c3 == IF Truthy(generated_query)
                      THEN <<"**Generated Query**\n~~~sql\n" \o generated_query.v
                              \o "\n~~~\n[View on Screener]("
                              \o query_url(generated_query.v) \o ")">>
                      ELSE <<>>
            IN  [exc |-> "none", value |-> Join(c1 \o c2 \o c3, "\n\n")]

\* chat_tab, `if not isinstance(result, dict):`
Malformed(result) == result.t # "dict"

\* Mutant of DeclaresFailure: the `not` is lost.
DeclaresFailure_inverted(result) == Truthy(PyGet(result, "success", PyBool(TRUE)))

\* chat_tab, `if not result.get("success", True):`
DeclaresFailure(result) == ~Truthy(PyGet(result, "success", PyBool(TRUE)))

\* chat_tab, `if user_msg and user_msg.strip():` block.
Pipeline(w, user_msg, context_snippet, outcome) ==
    LET cid == w.ss.conversation_id
        api_prompt == QUERY_PREFIX \o user_msg.v
        f == fetch_research(api_prompt, context_snippet, outcome)
        w1 == [w EXCEPT !.called = outcome, !.request = f.request]
        result == f.value
    IN  IF f.exc # "none"
        THEN SaveMessage(w1, cid, "assistant", ErrorText)
        ELSE IF Malformed(result)
        THEN SaveMessage(w1, cid, "assistant", ErrorText)
        ELSE IF DeclaresFailure(result)
        THEN SaveMessage(w1, cid, "assistant", ErrorText)
        ELSE LET c == ComposeMessage(result)
             IN  IF c.exc # "none" THEN Raise(w1, c.exc)
                 ELSE [SaveMessage(
                          [w1 EXCEPT !.ss.messages =
                              PyList(Append(@.v, [role |-> "assistant",
                                                  content |-> c.value]))],
                          cid, "assistant", c.value)
                       EXCEPT !.rerun = TRUE]

chat_tab(w, user_msg, outcome) ==
    LET w1 == IF Truthy(user_msg) THEN AcceptInput(w, user_msg) ELSE w
    IN  IF w1.exc # "none" THEN w1
        ELSE
        LET c == build_context(w1.ss.messages, 3)
        IN  IF c.exc # "none" THEN Raise(w1, c.exc)
            ELSE IF Truthy(user_msg) /\ Truthy(PyStr(strip(user_msg.v)))
            THEN Pipeline(w1, user_msg, c.value, outcome)
            ELSE w1

\* ---------- APPLICATION ENTRY ----------

NoEvent ==
    [button |-> "", tab |-> "", auth_resp |-> None, user_msg |-> None,
     outcome |-> "none"]

\* One run of main(): st.rerun() and an uncaught exception end it where they
\* happen.  Nothing is rendered before sidebar_history renders the selectbox.
main(w, ev) ==
    LET w0 == [w EXCEPT !.options = <<>>, !.rerun = FALSE]
        w1 == sidebar_auth(w0, ev)
    IN  IF w1.rerun THEN w1
        ELSE LET w2 == sidebar_history(w1)
             IN  IF ~Truthy(w2.ss.logged_in) THEN w2
                 ELSE chat_tab(w2, ev.user_msg, ev.outcome)

\* One interaction cycle: the run the event triggers and, when it called
\* st.rerun(), the run that follows with no event.
Cycle(w, ev) ==
    LET w1 == main(w, ev)
    IN  IF w1.rerun /\ w1.exc = "none" THEN main(w1, NoEvent) ELSE w1

----------------------------------------------------------------------------
(* The state machine.                                                      *)

Range(q) == {q[i] : i \in 1..Len(q)}

\* What the auth provider can answer: a failure, or a user.
AuthResponses == {None} \cup {PyDict([user |-> u]) : u \in Identities}

\* The world a cycle of session s starts from.
World(s) ==
    [ss |-> session_state[s], db |-> supabase, options |-> options[s],
     ops |-> <<>>, exc |-> "none", rerun |-> FALSE,
     called |-> "not_called", request |-> None]

\* The state a cycle of session s leaves, and the record of the cycle.
Commit(s, w, op, arg) ==
    /\ session_state' = [session_state EXCEPT ![s] = w.ss]
    /\ options' = [options EXCEPT ![s] = w.options]
    /\ supabase' = w.db
    /\ last' = [session |-> s, op |-> op, arg |-> arg, called |-> w.called,
                exc |-> w.exc, ops |-> w.ops, request |-> w.request]
    /\ UNCHANGED calls

\* No get_or_create_user call is in flight.
NoCall == [pc |-> "idle"]

Init ==
    /\ session_state = [s \in AllSessions |-> init_session_state]
    /\ options = [s \in AllSessions |-> <<>>]
    /\ supabase = [users |-> <<>>, user_conversations |-> <<>>, messages |-> <<>>]
    /\ last = [session |-> 0, op |-> "init", arg |-> None, called |-> "not_called",
               exc |-> "none", ops |-> <<>>, request |-> None]
    /\ calls = [s \in AllSessions |-> NoCall]

\* The sign-in / sign-up form is submitted (shown while not logged in).
AuthSubmit(s) ==
    /\ ~Truthy(session_state[s].logged_in)
    /\ \E tab \in {"Sign In", "Sign Up"}, auth_resp \in AuthResponses :
          Commit(s, Cycle(World(s), [NoEvent EXCEPT !.button = "Submit",
                                                    !.tab = tab,
                                                    !.auth_resp = auth_resp]),
                 IF tab = "Sign In" THEN "sign_in" ELSE "sign_up", auth_resp)

\* The Log Out button is pressed (shown while logged in).
LogOut(s) ==
    /\ Truthy(session_state[s].logged_in)
    /\ Commit(s, Cycle(World(s), [NoEvent EXCEPT !.button = "Log Out"]),
              "sign_out", None)

\* The user picks another option of the selectbox the last run rendered: the
\* widget stores it under its key, the callback runs, then the script.
SelectChange(s) ==
    /\ Truthy(session_state[s].logged_in)
    /\ \E sel \in Range(options[s]) :
          /\ sel # session_state[s].pick_conv
          /\ Commit(s, Cycle(handle_conv_change(
                                [World(s) EXCEPT !.ss.pick_conv = sel]), NoEvent),
                    "select", sel)

\* The user submits a text in the chat input (rendered while logged in); the
\* service answers with one of its outcomes if the run gets to call it.
ChatSubmit(s) ==
    /\ Truthy(session_state[s].logged_in)
    /\ Len(supabase.messages) + 2 <= MaxMessages
    /\ session_state[s].conversation_id = None
          => Len(supabase.user_conversations) + 1 <= MaxConversations
    /\ \E text \in UserTexts, outcome \in ServiceOutcomes :
          LET w == Cycle(World(s), [NoEvent EXCEPT !.user_msg = PyStr(text),
                                                   !.outcome = outcome])
          IN  Commit(s, w, "chat", PyStr(text))

\* Another client of the store soft-deletes a conversation (status flag).
SoftDeleteConversation ==
    /\ \E c \in 1..Len(supabase.user_conversations) :
          /\ supabase.user_conversations[c].status = "active"
          /\ supabase' = [supabase EXCEPT !.user_conversations[c].status = "deleted"]
          /\ last' = [session |-> 0, op |-> "soft_delete", arg |-> PyInt(c),
                      called |-> "not_called", exc |-> "none", ops |-> <<>>,
                      request |-> None]
    /\ UNCHANGED <<session_state, options, calls>>

\* The sessions that act in Spec, and in SpecTwo.
OneSession == {1}

Next ==
    \/ \E s \in OneSession : AuthSubmit(s)
    \/ \E s \in OneSession : LogOut(s)
    \/ \E s \in OneSession : SelectChange(s)
    \/ \E s \in OneSession : ChatSubmit(s)
    \/ SoftDeleteConversation

Spec == Init /\ [][Next]_vars

----------------------------------------------------------------------------
(* Two browser sessions of the same user on the one store, signing in,     *)
(* changing the selector and submitting.                                   *)

NextTwo ==
    \/ \E s \in AllSessions : AuthSubmit(s)
    \/ \E s \in AllSessions : SelectChange(s)
    \/ \E s \in AllSessions : ChatSubmit(s)

SpecTwo == Init /\ [][NextTwo]_vars

----------------------------------------------------------------------------
(* Sign-in with get_or_create_user in its two store round trips, for any   *)
(* number of sessions signing in and out at once.                          *)

\* The form is submitted, the provider accepts, and get_or_create_user's
\* select comes back.
SignInSelect(s) ==
    /\ ~Truthy(session_state[s].logged_in)
    /\ calls[s] = NoCall
    /\ \E tab \in {"Sign In", "Sign Up"}, u \in Identities :
          calls' = [calls EXCEPT ![s] =
                       [pc |-> "selected", tab |-> tab, user |-> u,
                        data |-> select_active_user(supabase, u.id)]]
    /\ UNCHANGED <<session_state, options, supabase, last>>

\* get_or_create_user goes on from its select, sign_in / sign_up store the
\* user in the session, and st.rerun() runs the script again.
SignInReturn(s) ==
    /\ calls[s] # NoCall
    /\ LET c == calls[s]
           r == return_or_insert_user(supabase, c.user.email, c.user.id, c.data)
           w == main([World(s) EXCEPT !.db = r.db,
                                      !.ss.logged_in = PyBool(TRUE),
                                      !.ss.user_email = PyStr(c.user.email),
                                      !.ss.user_id = PyInt(r.ret)],
                     NoEvent)
       IN  /\ session_state' = [session_state EXCEPT ![s] = w.ss]
           /\ options' = [options EXCEPT ![s] = w.options]
           /\ supabase' = w.db
           /\ last' = [session |-> s,
                       op |-> IF c.tab = "Sign In" THEN "sign_in" ELSE "sign_up",
                       arg |-> PyDict([user |-> c.user]), called |-> w.called,
                       exc |-> w.exc, ops |-> w.ops, request |-> w.request]
    /\ calls' = [calls EXCEPT ![s] = NoCall]

NextUsers ==
    \/ \E s \in AllSessions : SignInSelect(s)
    \/ \E s \in AllSessions : SignInReturn(s)
    \/ \E s \in AllSessions : LogOut(s)

SpecUsers == Init /\ [][NextUsers]_vars

----------------------------------------------------------------------------
(* The context builder on its own: any message log, any window size.       *)

MaxLogLen == 4
MaxTurns == 2

\* Messages a log can hold, and the logs of the model.
LogMessages ==
    { [role |-> r, content |-> c] : r \in {"user", "assistant"}, c \in {"a", "b"} }

Logs == UNION { [1..n -> LogMessages] : n \in 0..MaxLogLen }

InitContext ==
    /\ \E log \in Logs :
          session_state = [s \in AllSessions |->
                              IF s = 1
                              THEN [init_session_state EXCEPT !.messages = PyList(log)]
                              ELSE init_session_state]
    /\ options = [s \in AllSessions |-> <<>>]
    /\ supabase = [users |-> <<>>, user_conversations |-> <<>>, messages |-> <<>>]
    /\ last = [session |-> 0, op |-> "init", arg |-> None, called |-> "not_called",
               exc |-> "none", ops |-> <<>>, request |-> None]
    /\ calls = [s \in AllSessions |-> NoCall]

\* build_context(max_turns) is called on session 1's log; `last` keeps the
\* window size (arg) and the string returned (ret).
BuildContext ==
    /\ \E max_turns \in 0..MaxTurns :
          LET c == build_context(session_state[1].messages, max_turns)
          IN  last' = [session |-> 1, op |-> "build_context",
                       arg |-> PyInt(max_turns), exc |-> c.exc, ret |-> c.value]
    /\ UNCHANGED <<session_state, options, supabase, calls>>

NextContext == BuildContext

SpecContext == InitContext /\ [][NextContext]_vars

----------------------------------------------------------------------------
(* Properties.  `last` names the cycle that led to the current state.      *)

Session(s) == session_state[s]

ChatCycle == last.op = "chat"
SelectCycle == last.op = "select"

\* The store writes of the last cycle that append an assistant message.
AssistantAppends ==
    SelectSeq(last.ops, LAMBDA o : o.op = "append_message" /\ o.role = "assistant")

\* C1: in every state a cycle leaves, current_conversation_id is null if and
\* only if message_log is the empty sequence.
C1_NullIffEmptyLog ==
    \A s \in OneSession :
        (Session(s).conversation_id = None) <=> (Session(s).messages = PyList(<<>>))

\* C2: whenever current_conversation_id is non-null at the end of a cycle,
\* message_log is the store's full active history of that conversation, in
\* creation order (one session, nobody else writing).
C2_LogIsStoreHistory ==
    \A s \in OneSession :
        Session(s).conversation_id # None
            => Session(s).messages =
                   PyList(load_messages(supabase, Session(s).conversation_id.v))

\* C3: selecting a conversation id that is absent from the list fetched in
\* that cycle leaves the session in the new-conversation state, with no error.
C3_StaleSelectionResets ==
    \A s \in OneSession :
        (SelectCycle /\ last.session = s /\ last.arg \notin Range(options[s]))
            => /\ Session(s).conversation_id = None
               /\ Session(s).messages = PyList(<<>>)
               /\ last.exc = "none"

\* C4: a non-blank query submitted while current_conversation_id is null makes
\* the store see exactly create_conversation, append_message(user, input),
\* append_message(assistant, ...), the two messages under the new id, for
\* every service outcome.  (The cycle issued create_conversation exactly when
\* it started with a null current_conversation_id.)
C4_FirstMessagePersistsThree ==
    (/\ ChatCycle
     /\ strip(last.arg.v) # ""
     /\ last.ops # <<>>
     /\ last.ops[1].op = "create_conversation")
        => /\ Len(last.ops) = 3
           /\ last.ops[2] = [op |-> "append_message",
                             conversation_id |-> last.ops[1].conversation_id,
                             role |-> "user", content |-> last.arg.v]
           /\ last.ops[3].op = "append_message"
           /\ last.ops[3].role = "assistant"
           /\ last.ops[3].conversation_id = last.ops[1].conversation_id

\* C5: submitting whitespace-only text changes nothing: no conversation is
\* created, no message is written, and current_conversation_id, message_log
\* and selector_value keep their values.
C5_BlankSubmitIsNoOp ==
    [][(last'.op = "chat" /\ strip(last'.arg.v) = "")
          => /\ supabase' = supabase
             /\ \A s \in OneSession :
                   /\ Session(s).conversation_id' = Session(s).conversation_id
                   /\ Session(s).messages' = Session(s).messages
                   /\ Session(s).pick_conv' = Session(s).pick_conv]_vars

\* C6: no interaction cycle ends with selector_value different from
\* current_conversation_id, whatever the outcome of its pipeline.
C6_SelectorFollowsCurrent ==
    \A s \in OneSession : Session(s).pick_conv = Session(s).conversation_id

\* C7: at the end of the cycle that handles a user-driven selector change,
\* current_conversation_id equals selector_value, and both are what the user
\* picked (null for the new-conversation option, the picked id otherwise).
C7_SelectChangeSetsCurrent ==
    \A s \in OneSession :
        (SelectCycle /\ last.session = s)
            => /\ Session(s).conversation_id = Session(s).pick_conv
               /\ Session(s).conversation_id = last.arg

\* C7 witness: a change to an existing conversation with messages was handled.
C7_Witness ==
    /\ SelectCycle
    /\ last.arg # None
    /\ Session(last.session).messages.t = "list"
    /\ Session(last.session).messages.v # <<>>

\* C8: sign-out puts every session field back to its initial default.
C8_SignOutRestoresDefaults ==
    last.op = "sign_out" => Session(last.session) = init_session_state

\* C9: whatever the service call comes back with, the cycle ends without an
\* uncaught exception and persists exactly one assistant message.
C9_NoServiceFailureEscapes ==
    (ChatCycle /\ last.called # "not_called")
        => /\ last.exc = "none"
           /\ Len(AssistantAppends) = 1

\* C10: when the service answers with success=false, nothing is raised, the
\* assistant message persisted is the fixed error text, and the user message
\* of the submission is in the store right before it.
C10_SuccessFalsePersistsErrorText ==
    (ChatCycle /\ last.called = "success_false")
        => LET n == Len(supabase.messages)
               cid == Session(last.session).conversation_id
           IN  /\ last.exc = "none"
               /\ Len(AssistantAppends) = 1
               /\ n >= 2
               /\ supabase.messages[n] =
                     [conversation_id |-> cid.v, role |-> "assistant",
                      content |-> ErrorText, status |-> "active"]
               /\ supabase.messages[n - 1] =
                     [conversation_id |-> cid.v, role |-> "user",
                      content |-> last.arg.v, status |-> "active"]

\* C10 witness: a submission was answered with success=false.
C10_Witness ==
    /\ ChatCycle
    /\ last.called = "success_false"
    /\ last.ops # <<>>

\* The context the claim expects: the last min(L, 2N) messages of the log,
\* one role-tagged line each, oldest first.
Min(a, b) == IF a < b THEN a ELSE b

ExpectedContext(log, n) ==
    LET L == Len(log)
        k == Min(L, 2 * n)
    IN  Join([i \in 1..k |->
                 (IF log[L - k + i].role = "user" THEN "USER" ELSE "ASSISTANT")
                     \o ": " \o log[L - k + i].content], "\n")

\* C11: for every log of length L and every window size N >= 0, build_context
\* returns exactly the last min(L, 2N) messages, one role-tagged line per
\* message in chronological order (the empty string for L = 0), never more
\* than 2N messages.
C11_ContextIsLastWindow ==
    last.op = "build_context"
        => /\ last.exc = "none"
           /\ last.ret = ExpectedContext(Session(1).messages.v, last.arg.v)

\* C12: a conversation is created only by a chat submission (never by sign-in,
\* sign-out or a selector change), and at the end of every cycle every
\* conversation in the store has at least one message.
C12_NoEmptyConversation ==
    /\ (\E i \in 1..Len(last.ops) : last.ops[i].op = "create_conversation")
          => ChatCycle
    /\ \A c \in 1..Len(supabase.user_conversations) :
          \E i \in 1..Len(supabase.messages) :
              supabase.messages[i].conversation_id = supabase.user_conversations[c].id

\* C13: however get_or_create_user calls of any sessions interleave, the store
\* holds at most one active user row per external identity, and every
\* signed-in session got that row's id.
C13_OneUserPerIdentity ==
    \A u \in Identities :
        LET rows == SelectSeq(supabase.users,
                              LAMBDA r : r.auth_id = u.id /\ r.status = "active")
        IN  /\ Len(rows) <= 1
            /\ \A s \in AllSessions :
                  Truthy(Session(s).logged_in)
                      => /\ Len(rows) = 1
                         /\ Session(s).user_id = PyInt(rows[1].id)

\* The active messages the store holds under conversation c, oldest first,
\* as the log shows them.
RECURSIVE HistoryUpTo(_, _)
HistoryUpTo(c, n) ==
    IF n = 0 THEN <<>>
    ELSE LET m == supabase.messages[n]
         IN  IF m.conversation_id = c /\ m.status = "active"
             THEN Append(HistoryUpTo(c, n - 1), [role |-> m.role, content |-> m.content])
             ELSE HistoryUpTo(c, n - 1)

StoreHistory(c) == HistoryUpTo(c, Len(supabase.messages))

\* C14: a selector change to the 'new' option leaves current_conversation_id
\* null and message_log empty; a change to a conversation id leaves that id
\* and, as message_log, exactly that conversation's active history in creation
\* order, so nothing of the conversation shown before remains.
C14_SelectReplacesLog ==
    \A s \in OneSession :
        (SelectCycle /\ last.session = s)
            => IF last.arg = None
               THEN /\ Session(s).conversation_id = None
                    /\ Session(s).messages = PyList(<<>>)
               ELSE /\ Session(s).conversation_id = last.arg
                    /\ Session(s).messages = PyList(StoreHistory(last.arg.v))

\* C14 witness: a conversation with messages was selected while the store
\* also holds messages of another conversation.
C14_Witness ==
    /\ SelectCycle
    /\ last.arg # None
    /\ StoreHistory(last.arg.v) # <<>>
    /\ \E i \in 1..Len(supabase.messages) :
          supabase.messages[i].conversation_id # last.arg.v

\* C15: reconciliation in a signed-in session sets selector_value to
\* current_conversation_id whenever the two differ and leaves
\* current_conversation_id and message_log as they are; and so a cycle that
\* creates no conversation after its reconciliation ends with the two equal,
\* whatever the cycle before it left.
C15_ReconciliationFollowsCurrent ==
    \A s \in OneSession :
        /\ Truthy(Session(s).logged_in)
              => LET ss == sidebar_history(World(s)).ss
                 IN  /\ ss.pick_conv = Session(s).conversation_id
                     /\ ss.conversation_id = Session(s).conversation_id
                     /\ ss.messages = Session(s).messages
        /\ (/\ ChatCycle /\ last.session = s
            /\ \A i \in 1..Len(last.ops) : last.ops[i].op # "create_conversation")
              => Session(s).pick_conv = Session(s).conversation_id

\* C15 witness: a cycle left selector_value different from
\* current_conversation_id, and reconciliation brings it back.
C15_Witness ==
    \E s \in OneSession :
        /\ Truthy(Session(s).logged_in)
        /\ Session(s).pick_conv # Session(s).conversation_id
        /\ sidebar_history(World(s)).ss.pick_conv = Session(s).conversation_id

\* Whether a response carries none of thought, objectives and generated query.
NoFieldPresent(result) ==
    LET data == IF result.t = "dict" THEN PyGet(result, "data", None) ELSE None
        analysis == IF data.t = "dict" THEN PyGet(data, "analysis", None) ELSE None
        thought == IF analysis.t = "dict" THEN PyGet(analysis, "thought", None) ELSE None
        objectives == IF analysis.t = "dict" THEN PyGet(analysis, "objectives", None) ELSE None
        generated_query == IF data.t = "dict" THEN PyGet(data, "query", None) ELSE None
    IN  thought = None /\ objectives = None /\ generated_query = None

\* The service answered with an object that does not declare failure.
SuccessfulResponse ==
    /\ ChatCycle
    /\ last.called \in ReturningOutcomes
    /\ ResponseBody(last.called).t = "dict"
    /\ Truthy(PyGet(ResponseBody(last.called), "success", PyBool(TRUE)))

\* C16: a successful response with none of thought, objectives and generated
\* query is a success: the cycle appends to message_log and persists an
\* assistant message that is the empty composition, not the fixed error text,
\* and raises nothing.
C16_NoFieldsIsEmptySuccess ==
    (SuccessfulResponse /\ NoFieldPresent(ResponseBody(last.called)))
        => LET n == Len(supabase.messages)
               log == Session(last.session).messages
           IN  /\ last.exc = "none"
               /\ Len(AssistantAppends) = 1
               /\ AssistantAppends[1].content = ""
               /\ n >= 1
               /\ supabase.messages[n].role = "assistant"
               /\ supabase.messages[n].content = ""
               /\ log.t = "list"
               /\ log.v # <<>>
               /\ log.v[Len(log.v)] = [role |-> "assistant", content |-> ""]

\* The same for the responses whose data and analysis are objects or absent.
C16_ObjectDataOnly ==
    last.called \in {"ok_no_fields", "ok_no_data"} => C16_NoFieldsIsEmptySuccess

\* C17: a sign-in or sign-up the provider refuses changes nothing: every
\* session field (authenticated, user id, current_conversation_id,
\* message_log, selector_value) and the store keep their values.
C17_FailedAuthChangesNothing ==
    [][(last'.op \in {"sign_in", "sign_up"} /\ last'.arg = None)
          => /\ session_state' = session_state
             /\ supabase' = supabase
             /\ last'.exc = "none"]_vars

\* C17 witness: a sign-in was refused in a session that had signed out before,
\* whose fields are no longer the initial ones.
C17_Witness ==
    /\ last.op \in {"sign_in", "sign_up"}
    /\ last.arg = None
    /\ ~Truthy(Session(last.session).logged_in)
    /\ Session(last.session) # init_session_state

\* C18: in every reachable state of a signed-in or signed-out session
\* message_log is a sequence, so that the context builder and the append are
\* defined on it; and no cycle that signs in ends with an uncaught exception.
C18_LogIsAlwaysSequence ==
    \A s \in OneSession :
        /\ Session(s).messages.t = "list"
        /\ (last.op \in {"sign_in", "sign_up"} /\ last.session = s)
              => last.exc = "none"

\* The second half of C18 alone: the cycle of a sign-in ends without error.
C18_SignInCycleCompletes ==
    last.op \in {"sign_in", "sign_up"} => last.exc = "none"

\* Whether sequence a is b with some elements left out, order kept.
RECURSIVE IsSubseq(_, _)
IsSubseq(a, b) ==
    IF a = <<>> THEN TRUE
    ELSE IF b = <<>> THEN FALSE
    ELSE IF Head(a) = Head(b) THEN IsSubseq(Tail(a), Tail(b))
    ELSE IsSubseq(a, Tail(b))

Alternates(log) ==
    \A i \in 1..Len(log) :
        log[i].role = IF i % 2 = 1 THEN "user" ELSE "assistant"

\* C20: in one session, whatever was submitted and whatever the service
\* answered, the roles in message_log alternate strictly, starting with user.
C20_RolesAlternate ==
    \A s \in OneSession :
        Session(s).messages.t = "list" => Alternates(Session(s).messages.v)

\* C20 for the submissions of non-blank text only.
C20_RolesAlternateNonBlank ==
    \/ \E i \in 1..Len(supabase.messages) :
          /\ supabase.messages[i].role = "user"
          /\ strip(supabase.messages[i].content) = ""
    \/ C20_RolesAlternate

====
